---- MODULE Spec2Model ----
(***************************************************************************)
(* Model of src/lib.rs: the two fixed-capacity containers of the crate,    *)
(* CircularBuffer<T, A> and Vec<T, A>, over caller-provided storage.        *)
(*                                                                         *)
(* A backing array is a TLA+ sequence; the raw-pointer offset k of the     *)
(* source is position k + 1 of the sequence.                               *)
(***************************************************************************)
EXTENDS Integers, Sequences, FiniteSets, TLC

\* ---- bounds ----
MaxCap == 3
MaxElem == 2

Elems == 1..MaxElem
VecCaps == 0..MaxCap
CbCaps == 1..MaxCap

\* ---- return values (Result<(), ()>, Option<T>, ()) ----
Ok == <<"Ok">>
Err == <<"Err">>
None == <<"None">>
Some(x) == <<"Some", x>>
Unit == <<"Unit">>

\* A backing array of length n, every slot holding the same value f.
Filled(n, f) == [i \in 1..n |-> f]

VARIABLES
    vec,      \* the Vec: [array, len]
    vlast,    \* last Vec operation: [op, arg, ret, pre] (pre = the Vec before it)
    vprev,    \* the Vec operation before that: [op, arg, len] (len = length before it)
    ref,      \* reference stack run on the same operations
    npush,    \* pushes called since construction (saturates at capacity + 2)
    popped,   \* TRUE once pop has been called
    cb,       \* the CircularBuffer: [array, index, len]
    clast,    \* last CircularBuffer operation: [op, arg, ret, pre]
    hist,     \* the min(n, capacity) most recently pushed elements, oldest first
    pushed,   \* pushes called since construction (saturates at capacity + 1)
    pushmod,  \* pushes called since construction, modulo the capacity
    twin      \* a second CircularBuffer over storage of the same length: [array, index, len]

vecVars == <<vec, vlast, vprev, ref, npush, popped>>
cbVars == <<cb, clast, hist, pushed, pushmod, twin>>
vars == <<vec, vlast, vprev, ref, npush, popped, cb, clast, hist, pushed, pushmod, twin>>

\* ---------------------------------------------------------------------
\* CircularBuffer
\* ---------------------------------------------------------------------

\* CircularBuffer::new
CbNew(array) == [array |-> array, index |-> 0, len |-> 0]

\* CbCapacity returning the current length instead of the storage length.
CbCapacity_len(b) == b.len

\* CircularBuffer::capacity
CbCapacity(b) == Len(b.array)

\* CircularBuffer::push, line 51: the offset of the unchecked store
CbPushStore(b) == b.index

\* CircularBuffer::push, line 53: the divisor of the remainder
CbPushDivisor(b) == Len(b.array)

\* CbPush with the length taken from the write index.
CbPush_lenFromIndex(b, elem) ==
    LET n == Len(b.array)
        array1 == [b.array EXCEPT ![b.index + 1] = elem]
    IN [array |-> array1, index |-> (b.index + 1) % n, len |-> b.index + 1]

\* CbPush that leaves the write index where it was.
CbPush_indexStuck(b, elem) ==
    LET n == Len(b.array)
        len1 == IF b.len < n THEN b.len + 1 ELSE b.len
        array1 == [b.array EXCEPT ![b.index + 1] = elem]
    IN [array |-> array1, index |-> b.index, len |-> len1]

\* CbPush that advances the write index without the remainder.
CbPush_noModulo(b, elem) ==
    LET n == Len(b.array)
        len1 == IF b.len < n THEN b.len + 1 ELSE b.len
        array1 == [i \in DOMAIN b.array |-> IF i = b.index + 1 THEN elem ELSE b.array[i]]
    IN [array |-> array1, index |-> b.index + 1, len |-> len1]

\* CbPush that, once the buffer is full, always stores into slot 0.
CbPush_storeAtZero(b, elem) ==
    LET n == Len(b.array)
        len1 == IF b.len < n THEN b.len + 1 ELSE b.len
        array1 == [b.array EXCEPT ![IF b.len < n THEN b.index + 1 ELSE 1] = elem]
    IN [array |-> array1, index |-> (b.index + 1) % n, len |-> len1]

\* CbPush with the length incremented on every call.
CbPush_noSaturate(b, elem) ==
    LET n == Len(b.array)
        array1 == [b.array EXCEPT ![b.index + 1] = elem]
    IN [array |-> array1, index |-> (b.index + 1) % n, len |-> b.len + 1]

\* CbPush with the write index advanced before the store.
CbPush_storeAfterAdvance(b, elem) ==
    LET n == Len(b.array)
        len1 == IF b.len < n THEN b.len + 1 ELSE b.len
        index1 == (b.index + 1) % n
    IN [array |-> [b.array EXCEPT ![index1 + 1] = elem], index |-> index1, len |-> len1]

\* CircularBuffer::push; returns the buffer after the call (the call returns ())
CbPush(b, elem) ==
    LET n == Len(b.array)
        len1 == IF b.len < n THEN b.len + 1 ELSE b.len
        array1 == [b.array EXCEPT ![b.index + 1] = elem]
    IN [array |-> array1, index |-> (b.index + 1) % n, len |-> len1]

\* CbDeref returning the whole backing slice whatever the length.
CbDeref_wholeSlice(b) == b.array

\* <CircularBuffer as Deref>::deref
CbDeref(b) ==
    IF b.len = Len(b.array) THEN b.array ELSE SubSeq(b.array, 1, b.len)

\* ---------------------------------------------------------------------
\* Vec
\* ---------------------------------------------------------------------

\* Vec::new
VecNew(array) == [array |-> array, len |-> 0]

\* Vec::capacity
VecCapacity(v) == Len(v.array)

\* VecPop whose emptiness test looks at the capacity instead of the length.
VecPop_testsCapacity(v) ==
    IF Len(v.array) = 0
    THEN [self |-> v, ret |-> None]
    ELSE LET len1 == IF v.len = 0 THEN 0 ELSE v.len - 1
         IN [self |-> [v EXCEPT !.len = len1], ret |-> Some(v.array[len1 + 1])]

\* Vec::pop; self is the vector after the call, ret the returned Option
VecPop(v) ==
    IF v.len = 0
    THEN [self |-> v, ret |-> None]
    ELSE LET len1 == v.len - 1
         IN [self |-> [v EXCEPT !.len = len1], ret |-> Some(v.array[len1 + 1])]

\* VecPush whose fullness test is len > capacity instead of len == capacity.
VecPush_testsGreater(v, elem) ==
    IF v.len > Len(v.array)
    THEN [self |-> v, ret |-> Err]
    ELSE [self |-> [v EXCEPT !.array = [i \in DOMAIN @ |-> IF i = v.len + 1 THEN elem ELSE @[i]]],
          ret |-> Ok]

\* Vec::push; self is the vector after the call, ret the returned Result.
\* The else branch of the source stores elem at offset len and returns
\* Ok(()); it has no assignment to self.len.
VecPush(v, elem) ==
    IF v.len = Len(v.array)
    THEN [self |-> v, ret |-> Err]
    ELSE [self |-> [v EXCEPT !.array = [@ EXCEPT ![v.len + 1] = elem]],
          ret |-> Ok]

\* Vec::push, line 126: the offset of the unchecked store (else branch)
VecPushStore(v) == v.len

\* Vec::pop, lines 108-111: the offset of the unchecked load (else branch)
VecPopLoad(v) == v.len - 1

\* VecDeref exposing the whole backing slice.
VecDeref_wholeSlice(v) == v.array

\* <Vec as Deref>::deref
VecDeref(v) == SubSeq(v.array, 1, v.len)

\* ---------------------------------------------------------------------
\* Reference objects and bookkeeping
\* ---------------------------------------------------------------------

Min(a, b) == IF a < b THEN a ELSE b

\* The reference stack of capacity c: push is rejected when full, pop
\* removes the last element.
RefPush(s, c, e) == IF Len(s) < c THEN Append(s, e) ELSE s
RefPop(s) == IF s = <<>> THEN s ELSE SubSeq(s, 1, Len(s) - 1)

\* The c most recent pushes, oldest first.
Recent(h, c, e) == IF Len(h) < c THEN Append(h, e) ELSE Append(Tail(h), e)

\* ---------------------------------------------------------------------
\* States after construction
\* ---------------------------------------------------------------------

VecFresh(c, f) ==
    /\ vec = VecNew(Filled(c, f))
    /\ vlast = [op |-> "new", arg |-> f, ret |-> Unit, pre |-> VecNew(Filled(c, f))]
    /\ vprev = [op |-> "new", arg |-> f, len |-> 0]
    /\ ref = <<>>
    /\ npush = 0
    /\ popped = FALSE

CbFresh(c, f) ==
    /\ cb = CbNew(Filled(c, f))
    /\ clast = [op |-> "new", arg |-> f, ret |-> Unit, pre |-> CbNew(Filled(c, f))]
    /\ hist = <<>>
    /\ pushed = 0
    /\ pushmod = 0
    /\ twin = CbNew(Filled(c, f))

\* ---------------------------------------------------------------------
\* Operations
\* ---------------------------------------------------------------------

\* vec.push(elem)
Push(elem) ==
    LET r == VecPush(vec, elem) IN
    /\ vec' = r.self
    /\ vlast' = [op |-> "push", arg |-> elem, ret |-> r.ret, pre |-> vec]
    /\ vprev' = [op |-> vlast.op, arg |-> vlast.arg, len |-> vlast.pre.len]
    /\ ref' = RefPush(ref, VecCapacity(vec), elem)
    /\ npush' = Min(npush + 1, VecCapacity(vec) + 2)
    /\ UNCHANGED popped
    /\ UNCHANGED cbVars

\* vec.pop()
Pop ==
    LET r == VecPop(vec) IN
    /\ vec' = r.self
    /\ vlast' = [op |-> "pop", arg |-> 0, ret |-> r.ret, pre |-> vec]
    /\ vprev' = [op |-> vlast.op, arg |-> vlast.arg, len |-> vlast.pre.len]
    /\ ref' = RefPop(ref)
    /\ popped' = TRUE
    /\ UNCHANGED npush
    /\ UNCHANGED cbVars

\* cb.push(elem)
RingPush(elem) ==
    /\ cb' = CbPush(cb, elem)
    /\ clast' = [op |-> "push", arg |-> elem, ret |-> Unit, pre |-> cb]
    /\ hist' = Recent(hist, CbCapacity(cb), elem)
    /\ pushed' = Min(pushed + 1, CbCapacity(cb) + 1)
    /\ pushmod' = (pushmod + 1) % CbCapacity(cb)
    /\ UNCHANGED twin
    /\ UNCHANGED vecVars

\* cb.push(elem) on a buffer over storage of length 0: the store at line 51
\* goes through a pointer that is valid for no element (undefined
\* behaviour, the process may fault there), and the remainder at line 53
\* has divisor 0, which panics before index is assigned.
Panic == <<"Panic">>
Fault == <<"Fault">>
RingPushZero(elem) ==
    /\ CbCapacity(cb) = 0
    /\ \E outcome \in {Panic, Fault} :
          clast' = [op |-> "push", arg |-> elem, ret |-> outcome, pre |-> cb]
    /\ UNCHANGED <<cb, hist, pushed, pushmod, twin>>
    /\ UNCHANGED vecVars

\* twin.push(elem)
TwinPush(elem) ==
    /\ twin' = CbPush(twin, elem)
    /\ UNCHANGED <<cb, clast, hist, pushed, pushmod>>
    /\ UNCHANGED vecVars

\* ---------------------------------------------------------------------
\* Specifications
\* ---------------------------------------------------------------------

\* The bounded vector on its own.
InitVec ==
    /\ \E c \in VecCaps, f \in Elems : VecFresh(c, f)
    /\ CbFresh(1, 1)

NextVec ==
    \/ \E elem \in Elems : Push(elem)
    \/ Pop

SpecVec == InitVec /\ [][NextVec]_vars

\* The circular buffer on its own, capacity >= 1.
InitCb ==
    /\ VecFresh(0, 1)
    /\ \E c \in CbCaps, f \in Elems : CbFresh(c, f)

NextCb == \E elem \in Elems : RingPush(elem)

SpecCb == InitCb /\ [][NextCb]_vars

\* The circular buffer over storage of any length, 0 included.
InitCb0 ==
    /\ VecFresh(0, 1)
    /\ \E c \in {0} \cup CbCaps, f \in Elems : CbFresh(c, f)

NextCb0 ==
    \/ \E elem \in Elems : CbCapacity(cb) >= 1 /\ RingPush(elem)
    \/ \E elem \in Elems : RingPushZero(elem)

SpecCb0 == InitCb0 /\ [][NextCb0]_vars

\* Two circular buffers constructed over equal storage and pushed to
\* independently.
NextTwin ==
    \/ \E elem \in Elems : RingPush(elem)
    \/ \E elem \in Elems : TwinPush(elem)

SpecTwin == InitCb /\ [][NextTwin]_vars

\* Both containers side by side: a vector of any capacity next to a
\* buffer of capacity 1, or a buffer of any capacity >= 1 next to a vector
\* of capacity 0 (the two objects share no state).
Init == InitVec \/ InitCb

Next ==
    \/ \E elem \in Elems : Push(elem)
    \/ Pop
    \/ \E elem \in Elems : RingPush(elem)

Spec == Init /\ [][Next]_vars

\* ---------------------------------------------------------------------
\* Properties of the bounded vector (SpecVec)
\* ---------------------------------------------------------------------

\* C1: a push onto a vector with length < capacity returns Ok, stores the
\* element in slot `length` (the length before the push), increments the
\* length by exactly 1, and the read view afterwards is the old view with
\* the element appended.
C1_PushSuccess ==
    (vlast.op = "push" /\ vlast.pre.len < VecCapacity(vlast.pre)) =>
        /\ vlast.ret = Ok
        /\ vec.array[vlast.pre.len + 1] = vlast.arg
        /\ vec.len = vlast.pre.len + 1
        /\ VecDeref(vec) = Append(VecDeref(vlast.pre), vlast.arg)

\* C2: on a vector of capacity C >= 1, the first C pushes after
\* construction all return Ok, and the (C+1)-th returns Err with the
\* length remaining C.
C2_FillThenReject ==
    (vlast.op = "push" /\ ~popped /\ VecCapacity(vec) >= 1) =>
        /\ npush <= VecCapacity(vec) => vlast.ret = Ok
        /\ npush = VecCapacity(vec) + 1 => (vlast.ret = Err /\ vec.len = VecCapacity(vec))

\* C3: push(X) on a vector with length < capacity, immediately followed by
\* pop(), makes the pop return Some(X) and the length equal to the length
\* before the push.
C3_PushPopRoundTrip ==
    (vlast.op = "pop" /\ vprev.op = "push" /\ vprev.len < VecCapacity(vec)) =>
        /\ vlast.ret = Some(vprev.arg)
        /\ vec.len = vprev.len

\* C4: a push onto a vector with length == capacity returns Err and leaves
\* the length, every storage slot and the read view as they were.
C4_PushFullUnchanged ==
    (vlast.op = "push" /\ vlast.pre.len = VecCapacity(vlast.pre)) =>
        /\ vlast.ret = Err
        /\ vec.len = vlast.pre.len
        /\ vec.array = vlast.pre.array
        /\ VecDeref(vec) = VecDeref(vlast.pre)

\* A push has just been rejected by a full vector.
C4_Witness ==
    /\ vlast.op = "push"
    /\ vlast.pre.len = VecCapacity(vlast.pre)
    /\ vlast.ret = Err
    /\ npush >= 2

\* C5: after any sequence of pushes and pops the read view has exactly
\* `length` elements and equals the reference stack run on the same
\* operations.
C5_ViewIsReferenceStack ==
    /\ Len(VecDeref(vec)) = vec.len
    /\ VecDeref(vec) = ref

\* C7: a pop on a vector of length 0 returns None and leaves the length at
\* 0 and the storage unchanged, however many times it is repeated.
C7_PopEmpty ==
    (vlast.op = "pop" /\ vlast.pre.len = 0) =>
        /\ vlast.ret = None
        /\ vec.len = 0
        /\ vec.array = vlast.pre.array

\* Two pops in a row on an empty vector of capacity >= 1 that has been
\* pushed to.
C7_Witness ==
    /\ vlast.op = "pop"
    /\ vprev.op = "pop"
    /\ vprev.len = 0
    /\ vlast.pre.len = 0
    /\ vlast.ret = None
    /\ npush >= 1
    /\ VecCapacity(vec) >= 1

\* ---------------------------------------------------------------------
\* Properties of the circular buffer (SpecCb)
\* ---------------------------------------------------------------------

\* C8: a push stores the element in the slot at the write index it found,
\* increments the length by 1 if and only if the length was below the
\* capacity (otherwise the length stays at the capacity), and sets the
\* write index to (write index + 1) mod capacity; push is enabled in every
\* state and returns no failure.
C8_PushStep ==
    /\ \A elem \in Elems : ENABLED RingPush(elem)
    /\ clast.op = "push" =>
          LET p == clast.pre
              c == CbCapacity(p)
          IN /\ CbCapacity(cb) = c
             /\ cb.array[p.index + 1] = clast.arg
             /\ (cb.len = p.len + 1) <=> (p.len < c)
             /\ ~(p.len < c) => (cb.len = c /\ p.len = c)
             /\ cb.index = (p.index + 1) % c
             /\ clast.ret = Unit

\* A push onto a full buffer of capacity >= 2 whose write index wrapped to 0.
C8_Witness ==
    /\ clast.op = "push"
    /\ CbCapacity(cb) >= 2
    /\ clast.pre.len = CbCapacity(cb)
    /\ clast.pre.index = CbCapacity(cb) - 1
    /\ cb.index = 0

\* C9: after n <= capacity pushes into a fresh buffer the read view has
\* length n and holds exactly the pushed elements in push order; after
\* exactly `capacity` pushes the length equals the capacity.
C9_ViewBeforeWrap ==
    pushed <= CbCapacity(cb) =>
        /\ Len(CbDeref(cb)) = pushed
        /\ CbDeref(cb) = hist
        /\ pushed = CbCapacity(cb) => cb.len = CbCapacity(cb)

\* A buffer of capacity >= 2 partly filled with two different elements.
C9_Witness ==
    /\ clast.op = "push"
    /\ pushed = 2
    /\ pushed < CbCapacity(cb)
    /\ hist[1] # hist[2]

\* C10: a push onto a full buffer writes exactly one storage slot, the one
\* at the write index it found; every other slot is unchanged and the read
\* view still has `capacity` elements.
C10_OverwriteFrame ==
    (clast.op = "push" /\ clast.pre.len = CbCapacity(clast.pre)) =>
        LET p == clast.pre
            c == CbCapacity(p)
        IN /\ cb.array[p.index + 1] = clast.arg
           /\ \A i \in 1..c : i # p.index + 1 => cb.array[i] = p.array[i]
           /\ {i \in 1..c : cb.array[i] # p.array[i]} \subseteq {p.index + 1}
           /\ Len(CbDeref(cb)) = c

\* A push onto a full buffer of capacity >= 2 that replaced a different
\* value in a slot other than slot 0.
C10_Witness ==
    /\ clast.op = "push"
    /\ CbCapacity(cb) >= 2
    /\ clast.pre.len = CbCapacity(cb)
    /\ clast.pre.index >= 1
    /\ cb.array # clast.pre.array

\* ---------------------------------------------------------------------
\* Further properties of the circular buffer
\* ---------------------------------------------------------------------

\* Number of positions of s that hold e.
Count(s, e) == Cardinality({i \in 1..Len(s) : s[i] = e})

\* C11: after n pushes the multiset of elements in the read view is the
\* multiset of the min(n, capacity) most recently pushed elements: a push
\* onto a full buffer discards the oldest retained element and nothing else.
C11_Retention ==
    /\ Len(CbDeref(cb)) = Len(hist)
    /\ Len(hist) = Min(pushed, CbCapacity(cb))
    /\ \A e \in Elems : Count(CbDeref(cb), e) = Count(hist, e)

\* A push onto a full buffer of capacity >= 2 has replaced a different
\* value, after the write index wrapped.
C11_Witness ==
    /\ clast.op = "push"
    /\ CbCapacity(cb) >= 2
    /\ pushed > CbCapacity(cb)
    /\ clast.pre.index >= 1
    /\ clast.pre.array[clast.pre.index + 1] # clast.arg

\* C12: on a circular buffer over storage of length 0, a push stores at no
\* offset outside [0, capacity) and evaluates no remainder with divisor 0.
C12_ZeroCapacitySafe ==
    (clast.op = "push" /\ CbCapacity(clast.pre) = 0) =>
        /\ CbPushStore(clast.pre) >= 0
        /\ CbPushStore(clast.pre) < CbCapacity(clast.pre)
        /\ CbPushDivisor(clast.pre) # 0

\* C13: for both containers capacity() is the length of the backing
\* storage and is the same before and after every operation, failed pushes
\* and pops on empty included.
C13_CapacityConstant ==
    /\ VecCapacity(vec) = Len(vec.array)
    /\ VecCapacity(vec) = VecCapacity(vlast.pre)
    /\ VecCapacity(vec) = Len(vlast.pre.array)
    /\ CbCapacity(cb) = Len(cb.array)
    /\ CbCapacity(cb) = CbCapacity(clast.pre)
    /\ CbCapacity(cb) = Len(clast.pre.array)

\* A rejected push after a pop on empty, next to a buffer pushed past its
\* capacity.
C13_Witness ==
    /\ vlast.op = "push"
    /\ vlast.ret = Err
    /\ vprev.op = "pop"
    /\ clast.op = "push"
    /\ pushed > CbCapacity(cb)

\* C14: in every reachable state of a circular buffer of capacity >= 1,
\* 0 <= write index < capacity and 0 <= length <= capacity.
C14_CbBounds ==
    /\ 0 <= cb.index
    /\ cb.index < CbCapacity(cb)
    /\ 0 <= cb.len
    /\ cb.len <= CbCapacity(cb)

\* A full buffer of capacity >= 2 whose write index is at the last slot
\* after wrapping.
C14_Witness ==
    /\ clast.op = "push"
    /\ CbCapacity(cb) >= 2
    /\ pushed > CbCapacity(cb)
    /\ cb.len = CbCapacity(cb)
    /\ cb.index = CbCapacity(cb) - 1

\* C16: after n >= capacity pushes (numbered from 0) the read view has
\* `capacity` elements and its position i holds the most recently pushed
\* element whose push number is congruent to i modulo the capacity.
\* hist[j] is the push numbered n - capacity + j - 1.
C16_StorageOrderAfterWrap ==
    pushed >= CbCapacity(cb) =>
        LET c == CbCapacity(cb)
        IN /\ Len(CbDeref(cb)) = c
           /\ Len(hist) = c
           /\ \A j \in 1..c : CbDeref(cb)[((pushmod + j - 1) % c) + 1] = hist[j]

\* A wrapped buffer whose view is not in push order.
C16_Witness ==
    /\ clast.op = "push"
    /\ CbCapacity(cb) >= 2
    /\ pushed > CbCapacity(cb)
    /\ pushmod # 0
    /\ CbDeref(cb) # hist

\* Two buffers agree on capacity, length and storage contents.
SameVisible(a, b) ==
    /\ Len(a.array) = Len(b.array)
    /\ a.len = b.len
    /\ a.array = b.array

\* C17: two reachable states of a circular buffer with the same capacity,
\* length and storage contents give, for the same push, the same result,
\* the same resulting length and the same resulting read view.
C17_NoHiddenState ==
    SameVisible(cb, twin) =>
        \A elem \in Elems :
            /\ CbPush(cb, elem).len = CbPush(twin, elem).len
            /\ CbDeref(CbPush(cb, elem)) = CbDeref(CbPush(twin, elem))

\* C17 as amended: such two states give the same result and the same
\* resulting length, and resulting read views that agree at every position
\* other than the two write indices (so everywhere, if the write indices
\* are equal).
C17_UpToWriteIndex ==
    SameVisible(cb, twin) =>
        \A elem \in Elems :
            LET a == CbPush(cb, elem)
                b == CbPush(twin, elem)
            IN /\ a.len = b.len
               /\ Len(CbDeref(a)) = Len(CbDeref(b))
               /\ \A i \in 1..Len(CbDeref(a)) :
                      (i # cb.index + 1 /\ i # twin.index + 1) => CbDeref(a)[i] = CbDeref(b)[i]
               /\ cb.index = twin.index => CbDeref(a) = CbDeref(b)

\* Two full buffers with equal storage contents and different write
\* indices, both pushed to.
C17_Witness ==
    /\ clast.op = "push"
    /\ SameVisible(cb, twin)
    /\ CbCapacity(cb) >= 3
    /\ cb.len = CbCapacity(cb)
    /\ cb.index # twin.index

\* C18: across pushes the length never decreases, grows by at most 1 per
\* push, and once equal to the capacity stays equal to it.
C18_LenMonotone ==
    [][/\ cb.len <= cb'.len
       /\ cb'.len <= cb.len + 1
       /\ cb.len = CbCapacity(cb) => cb'.len = CbCapacity(cb')]_vars

\* A push that found the buffer full and left the length at the capacity.
C18_Witness ==
    /\ clast.op = "push"
    /\ CbCapacity(cb) >= 2
    /\ clast.pre.len = CbCapacity(cb)
    /\ cb.len = CbCapacity(cb)
    /\ pushed > CbCapacity(cb)

\* C20: while length < capacity the write index equals the length, the
\* slots [0, length) hold the pushed elements untouched, and the write
\* index first returns to 0 at the push that makes length == capacity.
C20_IndexTracksLen ==
    /\ cb.len < CbCapacity(cb) =>
          /\ cb.index = cb.len
          /\ pushed = cb.len
          /\ CbDeref(cb) = hist
    /\ (1 <= pushed /\ pushed < CbCapacity(cb)) => cb.index # 0
    /\ pushed = CbCapacity(cb) =>
          /\ cb.index = 0
          /\ cb.len = CbCapacity(cb)
          /\ clast.pre.len = CbCapacity(cb) - 1

\* The push that fills a buffer of capacity >= 2 and wraps the write index.
C20_Witness ==
    /\ clast.op = "push"
    /\ CbCapacity(cb) >= 2
    /\ pushed = CbCapacity(cb)
    /\ clast.pre.index = CbCapacity(cb) - 1
    /\ cb.index = 0

\* ---------------------------------------------------------------------
\* Further properties of the bounded vector, and of both containers
\* ---------------------------------------------------------------------

\* C15: in every reachable state 0 <= length <= capacity, every position
\* of the read view holds the value the reference stack holds there (a
\* value pushed and not since popped), and the view exposes no position in
\* [length, capacity).
C15_VecValidity ==
    /\ 0 <= vec.len
    /\ vec.len <= VecCapacity(vec)
    /\ Len(VecDeref(vec)) = vec.len
    /\ \A i \in 1..Len(VecDeref(vec)) :
          /\ i <= Len(ref)
          /\ VecDeref(vec)[i] = ref[i]

\* Slot 0 holds a value left by a push while the view exposes nothing.
C15_Witness ==
    /\ vlast.op = "pop"
    /\ vprev.op = "push"
    /\ VecCapacity(vec) >= 2
    /\ vec.array[1] = vprev.arg
    /\ vec.array[1] # vec.array[2]
    /\ VecDeref(vec) = <<>>

\* C19: every unchecked access is inside the backing storage: the store of
\* Vec::push, the load of Vec::pop and the store of CircularBuffer::push
\* are at offsets < capacity, and both read views are built with a length
\* <= capacity.
C19_AccessesInBounds ==
    /\ (vlast.op = "push" /\ vlast.ret = Ok) =>
          /\ 0 <= VecPushStore(vlast.pre)
          /\ VecPushStore(vlast.pre) < VecCapacity(vlast.pre)
    /\ (vlast.op = "pop" /\ vlast.ret # None) =>
          /\ 0 <= VecPopLoad(vlast.pre)
          /\ VecPopLoad(vlast.pre) < VecCapacity(vlast.pre)
    /\ clast.op = "push" =>
          /\ 0 <= CbPushStore(clast.pre)
          /\ CbPushStore(clast.pre) < CbCapacity(clast.pre)
    /\ vec.len <= VecCapacity(vec)
    /\ cb.len <= CbCapacity(cb)

\* Both containers have stored through the raw pointer, the buffer after
\* wrapping.
C19_Witness ==
    /\ vlast.op = "push"
    /\ vlast.ret = Ok
    /\ vprev.op = "pop"
    /\ clast.op = "push"
    /\ pushed > CbCapacity(cb)

====
